---- MODULE Spec2Model ----
(***************************************************************************)
(* Model of the SaxLearningApp component (src/src/App.tsx): the playback   *)
(* clock driven by requestAnimationFrame, the note lookup, the audio       *)
(* dispatch effects and the note-list editor.                              *)
(*                                                                         *)
(* Time is counted in ticks, TicksPerSecond ticks to the second; every     *)
(* note time and duration of the model is a whole number of seconds.       *)
(* The progress bar is BarWidth pixels wide, so that the click position    *)
(* (x / width) * duration is a whole number of ticks.                      *)
(*                                                                         *)
(* React is modelled in two phases: a handler (or a frame callback) sets   *)
(* the state in one batched update, and RunEffects then runs the effects   *)
(* whose dependencies changed, in declaration order, before the next       *)
(* handler or frame callback runs.                                         *)
(***************************************************************************)
EXTENDS Integers, Sequences, FiniteSets, TLC

VARIABLES
  song,                  \* useState<Song>
  isPlaying,             \* useState<boolean>
  currentTime,           \* useState<number>, in ticks
  duration,              \* useState<number>, in ticks
  currentlyPlayingNote,  \* useState<string | null>
  lastPlayedNoteRef,     \* useRef<string | null>
  editorMode,            \* useState<boolean>
  editingSong,           \* useState<Song | null>
  synth,                 \* useState<Tone.Synth | null>: TRUE when set
  isAudioInitialized,    \* useState<boolean>
  animationId,           \* TRUE when a requestAnimationFrame callback is pending
  lastTime,              \* "null" or "set": lastTime of the running effect closure
  reader,                \* FileReader in flight: NoReader or the captured closure
  playbackDirty,         \* the playback effect's dependencies changed
  noteDirty,             \* the note-playing effect's dependencies changed
  audio,                 \* the calls made on the synth by the last step
  edits,                 \* number of editor operations performed so far
  lastOp                 \* the last handler that ran

vars == <<song, isPlaying, currentTime, duration, currentlyPlayingNote,
          lastPlayedNoteRef, editorMode, editingSong, synth,
          isAudioInitialized, animationId, lastTime, reader, playbackDirty,
          noteDirty, audio, edits, lastOp>>

(***************************************************************************)
(* Bounds of the model.                                                    *)
(***************************************************************************)
TicksPerSecond == 2
MaxDelta == 2
MaxEdits == 1
MaxLookupNotes == 2
MaxEditorOps == 2
HandleHalf == 1

BarWidth == TicksPerSecond

Sec(n) == n * TicksPerSecond

Null == "null"

Min(a, b) == IF a < b THEN a ELSE b
Max(a, b) == IF a > b THEN a ELSE b

(***************************************************************************)
(* The finger table: the note names of the component.                      *)
(***************************************************************************)
fingerPositions ==
  [ Bb1 |-> <<FALSE, TRUE, TRUE, TRUE, TRUE, TRUE, TRUE>>,
    B1  |-> <<FALSE, TRUE, FALSE, FALSE, FALSE, FALSE, FALSE>>,
    C1  |-> <<FALSE, FALSE, TRUE, FALSE, FALSE, FALSE, FALSE>>,
    Cs1 |-> <<FALSE, FALSE, FALSE, TRUE, FALSE, FALSE, FALSE>>,
    D1  |-> <<FALSE, TRUE, TRUE, TRUE, TRUE, TRUE, TRUE>>,
    E1  |-> <<FALSE, TRUE, TRUE, TRUE, TRUE, TRUE, FALSE>>,
    F1  |-> <<FALSE, TRUE, TRUE, TRUE, TRUE, FALSE, FALSE>>,
    Fs1 |-> <<FALSE, TRUE, TRUE, TRUE, FALSE, TRUE, FALSE>>,
    G1  |-> <<TRUE, TRUE, TRUE, FALSE, FALSE, FALSE, FALSE>>,
    A1  |-> <<FALSE, TRUE, TRUE, FALSE, FALSE, FALSE, FALSE>>,
    B2  |-> <<TRUE, TRUE, FALSE, FALSE, FALSE, FALSE, FALSE>>,
    C2  |-> <<TRUE, FALSE, TRUE, FALSE, FALSE, FALSE, FALSE>>,
    Cs2 |-> <<TRUE, FALSE, TRUE, FALSE, FALSE, FALSE, FALSE>>,
    D2  |-> <<TRUE, TRUE, TRUE, TRUE, FALSE, TRUE, TRUE>>,
    E2  |-> <<TRUE, TRUE, TRUE, TRUE, TRUE, TRUE, FALSE>>,
    F2  |-> <<TRUE, TRUE, TRUE, TRUE, TRUE, FALSE, FALSE>>,
    Fs2 |-> <<TRUE, TRUE, TRUE, TRUE, FALSE, TRUE, FALSE>>,
    G2  |-> <<TRUE, TRUE, TRUE, TRUE, FALSE, FALSE, FALSE>>,
    A2  |-> <<TRUE, TRUE, TRUE, FALSE, FALSE, FALSE, FALSE>> ]

\* The key labels of the left column, by index.
KeyLabels == 0..6

\* getCurrentNote() && fingerPositions[getCurrentNote()!]?.[index]: the
\* label's circle is drawn pressed.
keyLabelPressed(name, index) ==
  /\ name # Null
  /\ name \in DOMAIN fingerPositions
  /\ index + 1 \in DOMAIN fingerPositions[name]
  /\ fingerPositions[name][index + 1]

\* getCurrentNote() && fingerPositions[getCurrentNote()!]?.map(...): the
\* rows of the finger position panel, one circle per entry of the vector;
\* nothing is rendered without a vector to map over.
fingerRows(name) ==
  IF name # Null /\ name \in DOMAIN fingerPositions
  THEN fingerPositions[name]
  ELSE <<>>

\* fingerPositions[note.note] || []
notePositions(name) ==
  IF name \in DOMAIN fingerPositions THEN fingerPositions[name] ELSE <<>>

\* A note as the component stores it; "#" of a name is written "s".
Note(n, d, t) == [note |-> n, duration |-> d, time |-> t]

InitialSong ==
  [ title |-> "Alto Sax Basic Notes",
    notes |-> << Note("C1", Sec(1), Sec(0)), Note("B1", Sec(1), Sec(1)),
                 Note("D1", Sec(1), Sec(2)), Note("E1", Sec(1), Sec(3)),
                 Note("F1", Sec(1), Sec(4)), Note("G1", Sec(1), Sec(5)),
                 Note("B2", Sec(1), Sec(6)), Note("C2", Sec(1), Sec(7)),
                 Note("D2", Sec(1), Sec(8)), Note("B2", Sec(1), Sec(9)) >>,
    tempo |-> 60,
    timeSignature |-> <<4, 4>> ]

\* useState<Song | null>(null)
NoSong == [title |-> Null, notes |-> <<>>, tempo |-> 0, timeSignature |-> <<>>]

NoReader == [active |-> FALSE, sounding |-> FALSE]

(***************************************************************************)
(* getCurrentNote / getCurrentNoteIndex: the scan in list order.           *)
(* Indices are the source's, from 0.                                       *)
(***************************************************************************)
RECURSIVE ScanFrom(_, _, _)
ScanFrom(i, time, notes) ==
  IF ~(i < Len(notes)) THEN -1
  ELSE IF time >= notes[i + 1].time
          /\ time < notes[i + 1].time + notes[i + 1].duration
       THEN i
       ELSE ScanFrom(i + 1, time, notes)

getCurrentNoteIndex(time, notes) == ScanFrom(0, time, notes)

\* The scan with the end of a note's interval included.
RECURSIVE NoteScanClosed(_, _, _)
NoteScanClosed(i, time, notes) ==
  IF ~(i < Len(notes)) THEN Null
  ELSE IF time >= notes[i + 1].time
          /\ time <= notes[i + 1].time + notes[i + 1].duration
       THEN notes[i + 1].note
       ELSE NoteScanClosed(i + 1, time, notes)

RECURSIVE NoteScanFrom(_, _, _)
NoteScanFrom(i, time, notes) ==
  IF ~(i < Len(notes)) THEN Null
  ELSE IF time >= notes[i + 1].time
          /\ time < notes[i + 1].time + notes[i + 1].duration
       THEN notes[i + 1].note
       ELSE NoteScanFrom(i + 1, time, notes)

getCurrentNote(time, notes) == NoteScanFrom(0, time, notes)

(***************************************************************************)
(* notes.reduce((total, note) => Math.max(total, note.time +               *)
(* note.duration), 0)                                                      *)
(***************************************************************************)
RECURSIVE ReduceExtent(_, _, _)
ReduceExtent(total, i, notes) ==
  IF i > Len(notes) THEN total
  ELSE ReduceExtent(Max(total, notes[i].time + notes[i].duration), i + 1, notes)

\* The extent taken from the last note alone, as if the list were sorted.
ExtentOfLast(notes) ==
  IF notes = <<>> THEN 0
  ELSE notes[Len(notes)].time + notes[Len(notes)].duration

TotalExtent(notes) == ReduceExtent(0, 1, notes)

(***************************************************************************)
(* song.notes.find((n) => n.note === currentNote)?.duration || 1           *)
(***************************************************************************)
RECURSIVE FindDuration(_, _, _)
FindDuration(i, name, notes) ==
  IF i > Len(notes) THEN Sec(1)
  ELSE IF notes[i].note = name
       THEN (IF notes[i].duration = 0 THEN Sec(1) ELSE notes[i].duration)
       ELSE FindDuration(i + 1, name, notes)

\* currentNote.replace(/(\d+)$/, octave => String(parseInt(octave) + 2))
Transpose ==
  [ Bb1 |-> "Bb3", B1 |-> "B3", C1 |-> "C3", Cs1 |-> "Cs3", D1 |-> "D3",
    E1 |-> "E3", Eb1 |-> "Eb3", F1 |-> "F3", Fs1 |-> "Fs3", G1 |-> "G3",
    A1 |-> "A3", B2 |-> "B4", Bb2 |-> "Bb4", C2 |-> "C4", Cs2 |-> "Cs4",
    D2 |-> "D4", E2 |-> "E4", F2 |-> "F4", Fs2 |-> "Fs4", G2 |-> "G4",
    A2 |-> "A4" ]

transposedNote(name) == IF name \in DOMAIN Transpose THEN Transpose[name] ELSE name

Release == [op |-> "triggerRelease"]
Attack(name, d) == [op |-> "triggerAttackRelease", note |-> name, duration |-> d]

(***************************************************************************)
(* The state after the component is constructed and first rendered.        *)
(***************************************************************************)
Init ==
  /\ song = InitialSong
  /\ isPlaying = FALSE
  /\ currentTime = 0
  /\ duration = Sec(10)
  /\ currentlyPlayingNote = Null
  /\ lastPlayedNoteRef = Null
  /\ editorMode = FALSE
  /\ editingSong = NoSong
  /\ synth = FALSE
  /\ isAudioInitialized = FALSE
  /\ animationId = FALSE
  /\ lastTime = "null"
  /\ reader = NoReader
  /\ playbackDirty = FALSE
  /\ noteDirty = FALSE
  /\ audio = <<>>
  /\ edits = 0
  /\ lastOp = "init"

\* The mount effects have run and no effect is pending: a handler may run.
Idle == synth /\ ~playbackDirty /\ ~noteDirty

(***************************************************************************)
(* Mount effect: creates the synth and stores it in state.                 *)
(***************************************************************************)
SetupSynth ==
  /\ ~synth
  /\ synth' = TRUE
  /\ playbackDirty' = TRUE
  /\ noteDirty' = TRUE
  /\ audio' = <<>>
  /\ lastOp' = "setupSynth"
  /\ UNCHANGED <<song, isPlaying, currentTime, duration, currentlyPlayingNote,
                 lastPlayedNoteRef, editorMode, editingSong,
                 isAudioInitialized, animationId, lastTime, reader, edits>>

\* The playback effect's cleanup skipped: the pending frame is never
\* cancelled.
framePendingNoCancel(effectRuns) ==
  IF effectRuns THEN (isPlaying \/ animationId) ELSE animationId

\* A run of the playback effect: the cleanup of the previous run cancels the
\* pending frame, and the body requests one when playing.
framePendingAfter(effectRuns) ==
  IF effectRuns THEN isPlaying ELSE animationId

(***************************************************************************)
(* The effects of one commit: the playback effect, then the note-playing   *)
(* effect, each only when one of its dependencies changed.                 *)
(***************************************************************************)
RunEffects ==
  /\ synth
  /\ playbackDirty \/ noteDirty
  /\ LET pausedRelease == /\ playbackDirty
                          /\ ~isPlaying
                          /\ synth /\ currentlyPlayingNote # Null
         noteRuns == noteDirty /\ isPlaying /\ synth /\ isAudioInitialized
         currentNote == getCurrentNote(currentTime, song.notes)
         attack == /\ noteRuns
                   /\ currentNote # Null
                   /\ currentNote # lastPlayedNoteRef
         stop == /\ noteRuns
                 /\ ~attack
                 /\ currentNote = Null
                 /\ currentlyPlayingNote # Null
         noteDuration == FindDuration(1, currentNote, song.notes)
         cpn == IF pausedRelease THEN Null
                ELSE IF attack THEN currentNote
                ELSE IF stop THEN Null
                ELSE currentlyPlayingNote
     IN
       \* cleanup cancels the pending frame; the effect body requests a new
       \* one with lastTime reset when playing
       /\ animationId' = framePendingAfter(playbackDirty)
       /\ lastTime' = IF playbackDirty THEN "null" ELSE lastTime
       /\ currentlyPlayingNote' = cpn
       /\ lastPlayedNoteRef' = IF attack THEN currentNote
                               ELSE IF stop THEN Null
                               ELSE lastPlayedNoteRef
       /\ audio' = (IF pausedRelease THEN <<Release>> ELSE <<>>)
                   \o (IF attack /\ currentlyPlayingNote # Null
                       THEN <<Release>> ELSE <<>>)
                   \o (IF attack
                       THEN <<Attack(transposedNote(currentNote), noteDuration)>>
                       ELSE <<>>)
                   \o (IF stop THEN <<Release>> ELSE <<>>)
       /\ playbackDirty' = (cpn # currentlyPlayingNote)
       /\ noteDirty' = FALSE
  /\ UNCHANGED <<song, isPlaying, currentTime, duration, editorMode,
                 editingSong, synth, isAudioInitialized, reader, edits, lastOp>>

(***************************************************************************)
(* animate: the requestAnimationFrame callback.  The first frame of an     *)
(* effect run measures no elapsed time; a later one measures delta > 0.    *)
(* The callback's closure has isPlaying = TRUE (it is requested only by a  *)
(* playing effect run and cancelled when isPlaying changes).               *)
(***************************************************************************)
animate(delta) ==
  /\ Idle
  /\ animationId
  /\ LET deltaTime == IF lastTime = "null" THEN 0 ELSE delta
         newTime == Min(currentTime + deltaTime, duration)
     IN /\ IF newTime >= duration
           THEN /\ isPlaying' = FALSE
                /\ currentTime' = duration
           ELSE /\ isPlaying' = isPlaying
                /\ currentTime' = newTime
        /\ lastTime' = "set"
        /\ animationId' = TRUE
        /\ playbackDirty' = (isPlaying' # isPlaying)
        /\ noteDirty' = (isPlaying' # isPlaying \/ currentTime' # currentTime)
  /\ audio' = <<>>
  /\ lastOp' = "animate"
  /\ UNCHANGED <<song, duration, currentlyPlayingNote, lastPlayedNoteRef,
                 editorMode, editingSong, synth, isAudioInitialized, reader,
                 edits>>

(***************************************************************************)
(* togglePlayback: the play / pause button.                                *)
(***************************************************************************)
togglePlayback ==
  /\ Idle
  /\ ~editorMode
  /\ isAudioInitialized' = TRUE
  /\ isPlaying' = ~isPlaying
  /\ playbackDirty' = TRUE
  /\ noteDirty' = TRUE
  /\ audio' = <<>>
  /\ lastOp' = IF isPlaying THEN "pause" ELSE "play"
  /\ UNCHANGED <<song, currentTime, duration, currentlyPlayingNote,
                 lastPlayedNoteRef, editorMode, editingSong, synth,
                 animationId, lastTime, reader, edits>>

(***************************************************************************)
(* resetPlayback.  sounding is the value of synth && currentlyPlayingNote  *)
(* in the closure that calls it.                                           *)
(***************************************************************************)
\* resetPlayback without setCurrentTime(0).
ResetWithoutRewind(sounding) ==
  /\ currentTime' = currentTime
  /\ isPlaying' = FALSE
  /\ IF sounding
     THEN /\ audio' = <<Release>>
          /\ currentlyPlayingNote' = Null
          /\ lastPlayedNoteRef' = Null
     ELSE /\ audio' = <<>>
          /\ UNCHANGED <<currentlyPlayingNote, lastPlayedNoteRef>>

ResetWith(sounding) ==
  /\ currentTime' = 0
  /\ isPlaying' = FALSE
  /\ IF sounding
     THEN /\ audio' = <<Release>>
          /\ currentlyPlayingNote' = Null
          /\ lastPlayedNoteRef' = Null
     ELSE /\ audio' = <<>>
          /\ UNCHANGED <<currentlyPlayingNote, lastPlayedNoteRef>>

resetPlayback ==
  /\ Idle
  /\ ~editorMode
  /\ ResetWith(synth /\ currentlyPlayingNote # Null)
  /\ playbackDirty' = (isPlaying \/ currentlyPlayingNote' # currentlyPlayingNote)
  /\ noteDirty' = (isPlaying \/ currentTime # 0)
  /\ lastOp' = "reset"
  /\ UNCHANGED <<song, duration, editorMode, editingSong, synth,
                 isAudioInitialized, animationId, lastTime, reader, edits>>

(***************************************************************************)
(* handleProgressBarClick: x = e.clientX - rect.left, in pixels.  The bar  *)
(* covers 0..BarWidth; the handle, a child of the bar, is centred on the   *)
(* progress position, reaches HandleHalf pixels to either side and is      *)
(* shown when progress > 0.  A click on either reaches the handler.        *)
(***************************************************************************)
OnBar(x) == 0 <= x /\ x <= BarWidth

OnHandle(x) ==
  /\ duration > 0
  /\ currentTime > 0
  /\ x * duration >= currentTime * BarWidth - HandleHalf * duration
  /\ x * duration <= currentTime * BarWidth + HandleHalf * duration

\* The click position taken as a time, without scaling by the bar's width.
clickedTimeUnscaled(x) == x

clickedTime(x) == (x * duration) \div BarWidth

handleProgressBarClick(x) ==
  /\ Idle
  /\ ~editorMode
  /\ OnBar(x) \/ OnHandle(x)
  /\ currentTime' = clickedTime(x)
  /\ playbackDirty' = FALSE
  /\ noteDirty' = (currentTime' # currentTime)
  /\ audio' = <<>>
  /\ lastOp' = "seek"
  /\ UNCHANGED <<song, isPlaying, duration, currentlyPlayingNote,
                 lastPlayedNoteRef, editorMode, editingSong, synth,
                 isAudioInitialized, animationId, lastTime, reader, edits>>

ClickXs == (0 - HandleHalf)..(BarWidth + HandleHalf)

(***************************************************************************)
(* handleFileUpload starts a FileReader; reader.onload runs later, with    *)
(* the resetPlayback of the render that started the read.  The file's      *)
(* bytes are ignored: the song is 8 notes of one second drawn from a fixed *)
(* pool.  A draw gives the pool index of the even and of the odd notes.    *)
(***************************************************************************)
ImportPool == <<"Bb1", "C1", "D1", "Eb1", "F1", "G1", "Bb2", "C2">>

ImportDraws == {<<1, 3>>}

ImportTitle == "tune (Basic Notes)"

parsedSong(a, b) ==
  [ title |-> ImportTitle,
    notes |-> [i \in 1..8 |->
                 Note(ImportPool[(IF (i - 1) % 2 = 0 THEN a ELSE b) + 1],
                      Sec(1), Sec(i - 1))],
    tempo |-> 60,
    timeSignature |-> <<4, 4>> ]

handleFileUpload ==
  /\ Idle
  /\ ~editorMode
  /\ ~reader.active
  /\ reader' = [active |-> TRUE,
                sounding |-> (synth /\ currentlyPlayingNote # Null)]
  /\ audio' = <<>>
  /\ lastOp' = "upload"
  /\ UNCHANGED <<song, isPlaying, currentTime, duration, currentlyPlayingNote,
                 lastPlayedNoteRef, editorMode, editingSong, synth,
                 isAudioInitialized, animationId, lastTime, playbackDirty,
                 noteDirty, edits>>

readerOnload(a, b) ==
  /\ Idle
  /\ reader.active
  /\ song' = parsedSong(a, b)
  /\ duration' = TotalExtent(parsedSong(a, b).notes)
  /\ ResetWith(reader.sounding)
  /\ reader' = NoReader
  /\ playbackDirty' = \/ isPlaying
                      \/ duration' # duration
                      \/ currentlyPlayingNote' # currentlyPlayingNote
  /\ noteDirty' = (isPlaying \/ currentTime # 0 \/ song'.notes # song.notes)
  /\ lastOp' = "import"
  /\ UNCHANGED <<editorMode, editingSong, synth, isAudioInitialized,
                 animationId, lastTime, edits>>

(***************************************************************************)
(* The editor.  Its buttons and inputs exist only in editor mode and only  *)
(* for the rows of editingSong.notes.  The title input is left out: the    *)
(* title has no part in playback.                                          *)
(***************************************************************************)
toggleEditor ==
  /\ Idle
  /\ editorMode' = ~editorMode
  /\ editingSong' = IF ~editorMode THEN song ELSE editingSong
  /\ audio' = <<>>
  /\ lastOp' = IF editorMode THEN "exitEditor" ELSE "openEditor"
  /\ UNCHANGED <<song, isPlaying, currentTime, duration, currentlyPlayingNote,
                 lastPlayedNoteRef, synth, isAudioInitialized, animationId,
                 lastTime, reader, playbackDirty, noteDirty, edits>>

\* The frame of an editor operation: it changes editingSong only.
EditorFrame(op) ==
  /\ edits' = edits + 1
  /\ audio' = <<>>
  /\ lastOp' = op
  /\ UNCHANGED <<song, isPlaying, currentTime, duration, currentlyPlayingNote,
                 lastPlayedNoteRef, editorMode, synth, isAudioInitialized,
                 animationId, lastTime, reader, playbackDirty, noteDirty>>

EditorOpen == Idle /\ editorMode /\ editingSong # NoSong

\* Math.max(...notes.map((n) => n.time + n.duration)) of a non-empty list
RECURSIVE MaxOfExtents(_, _)
MaxOfExtents(i, notes) ==
  IF i = Len(notes) THEN notes[i].time + notes[i].duration
  ELSE Max(notes[i].time + notes[i].duration, MaxOfExtents(i + 1, notes))

\* addNote with the start taken from the end of the last row alone.
addNoteAfterLast(notes) ==
  Append(notes, Note("C1", Sec(1), ExtentOfLast(notes)))

addNoteTo(notes) ==
  Append(notes, Note("C1", Sec(1),
                     IF Len(notes) > 0 THEN MaxOfExtents(1, notes) ELSE 0))

addNote ==
  /\ EditorOpen
  /\ editingSong' = [editingSong EXCEPT !.notes = addNoteTo(editingSong.notes)]
  /\ EditorFrame("addNote")

\* A list position never assigned: a hole of the JavaScript array.
Hole == [h \in {} |-> h]

\* { ...updatedNotes[index], [property]: value }
WithProperty(old, property, value) ==
  [p \in (DOMAIN old) \cup {property} |->
     IF p = property THEN value ELSE old[p]]

\* updatedNotes = [...notes]; updatedNotes[index] = { ...updatedNotes[index],
\* [property]: value }.  A negative index sets a property of the array
\* object that is no element of it.
updateNoteIn(notes, index, property, value) ==
  IF index < 0 THEN notes
  ELSE [i \in 1..Max(Len(notes), index + 1) |->
          IF i = index + 1
            THEN WithProperty(IF i <= Len(notes) THEN notes[i] ELSE Hole,
                              property, value)
          ELSE IF i <= Len(notes) THEN notes[i]
          ELSE Hole]

updateNote(index, property, value) ==
  /\ EditorOpen
  /\ editingSong' = [editingSong EXCEPT
                       !.notes = updateNoteIn(editingSong.notes, index,
                                              property, value)]
  /\ EditorFrame("updateNote")

\* The removal of the last row, whatever the index.
deleteLastNoteIn(notes, index) ==
  IF notes = <<>> THEN <<>> ELSE SubSeq(notes, 1, Len(notes) - 1)

\* notes.filter((_, i) => i !== index)
RECURSIVE deleteNoteIn(_, _)
deleteNoteIn(notes, index) ==
  IF notes = <<>> THEN <<>>
  ELSE IF index = 0 THEN Tail(notes)
  ELSE <<Head(notes)>> \o deleteNoteIn(Tail(notes), index - 1)

deleteNote(index) ==
  /\ EditorOpen
  /\ editingSong' = [editingSong EXCEPT
                       !.notes = deleteNoteIn(editingSong.notes, index)]
  /\ EditorFrame("deleteNote")

saveSong ==
  /\ Idle
  /\ editorMode
  /\ editingSong # NoSong
  /\ song' = editingSong
  /\ duration' = TotalExtent(editingSong.notes)
  /\ editorMode' = FALSE
  /\ ResetWith(synth /\ currentlyPlayingNote # Null)
  /\ playbackDirty' = \/ isPlaying
                      \/ duration' # duration
                      \/ currentlyPlayingNote' # currentlyPlayingNote
  /\ noteDirty' = (isPlaying \/ currentTime # 0 \/ song'.notes # song.notes)
  /\ lastOp' = "saveSong"
  /\ UNCHANGED <<editingSong, synth, isAudioInitialized, animationId,
                 lastTime, reader, edits>>

(***************************************************************************)
(* What the editor's inputs supply: the row acted on (the last one), and a *)
(* few of the values the select and the number inputs offer.               *)
(***************************************************************************)
EditRows(notes) == {i \in 0..(Len(notes) - 1) : i = Len(notes) - 1}

EditNames == {"D1"}
EditTimes == {Sec(0)}
EditDurations == {Sec(2)}

EditNumbers ==
  {<<"time", t>> : t \in EditTimes} \cup {<<"duration", d>> : d \in EditDurations}

EditValues == {<<"note", n>> : n \in EditNames} \cup EditNumbers

\* The editor operations of a run are counted and bounded.
MayEdit == edits < MaxEdits

Next ==
  \/ SetupSynth
  \/ RunEffects
  \/ \E delta \in 1..MaxDelta : animate(delta)
  \/ togglePlayback
  \/ resetPlayback
  \/ \E x \in ClickXs : handleProgressBarClick(x)
  \/ handleFileUpload
  \/ \E draw \in ImportDraws : readerOnload(draw[1], draw[2])
  \/ toggleEditor
  \/ MayEdit /\ addNote
  \/ MayEdit /\ \E index \in EditRows(editingSong.notes), pv \in EditNumbers :
                  updateNote(index, pv[1], pv[2])
  \/ MayEdit /\ \E index \in EditRows(editingSong.notes) : deleteNote(index)
  \/ saveSong

Spec == Init /\ [][Next]_vars

(***************************************************************************)
(* The clock left to run: once playback is started only frames and the     *)
(* effects act, and frames keep arriving.                                  *)
(***************************************************************************)
Frame == \E delta \in 1..MaxDelta : animate(delta)

play == ~isPlaying /\ togglePlayback

seekWhilePaused == ~isPlaying /\ \E x \in ClickXs : handleProgressBarClick(x)

resetWhilePaused == ~isPlaying /\ resetPlayback

NextAuto ==
  \/ SetupSynth
  \/ RunEffects
  \/ Frame
  \/ play
  \/ seekWhilePaused
  \/ resetWhilePaused

SpecAuto ==
  Init /\ [][NextAuto]_vars /\ WF_vars(Frame) /\ WF_vars(RunEffects)

(***************************************************************************)
(* The lookup over any short note list: the live song is drawn from the    *)
(* lists of at most MaxLookupNotes notes, overlaps included.               *)
(***************************************************************************)
LookupNotes ==
  {Note(n, d, t) : n \in {"C1", "D1"}, d \in {Sec(1), Sec(2)},
                   t \in {Sec(0), Sec(1)}}

LookupLists ==
  UNION {[1..k -> LookupNotes] : k \in 0..MaxLookupNotes}

InitLookup ==
  /\ song \in {[InitialSong EXCEPT !.notes = l] : l \in LookupLists}
  /\ duration = TotalExtent(song.notes)
  /\ isPlaying = FALSE
  /\ currentTime = 0
  /\ currentlyPlayingNote = Null
  /\ lastPlayedNoteRef = Null
  /\ editorMode = FALSE
  /\ editingSong = NoSong
  /\ synth = FALSE
  /\ isAudioInitialized = FALSE
  /\ animationId = FALSE
  /\ lastTime = "null"
  /\ reader = NoReader
  /\ playbackDirty = FALSE
  /\ noteDirty = FALSE
  /\ audio = <<>>
  /\ edits = 0
  /\ lastOp = "init"

NextLookup ==
  \/ SetupSynth
  \/ RunEffects
  \/ Frame
  \/ togglePlayback
  \/ resetPlayback
  \/ \E x \in ClickXs : handleProgressBarClick(x)

SpecLookup == InitLookup /\ [][NextLookup]_vars

(***************************************************************************)
(* The editor's operations on their own, on any short note list and with   *)
(* any index: the indices of the rows, one before the first and up to two  *)
(* past the last.  An operation is followed only while every row has its   *)
(* three fields.                                                           *)
(***************************************************************************)
AnyIndex(notes) == (0 - 1)..(Len(notes) + 1)

WellFormed(notes) ==
  \A i \in 1..Len(notes) : DOMAIN notes[i] = {"note", "duration", "time"}

MayOperate == edits < MaxEditorOps /\ WellFormed(editingSong.notes)

InitEditor ==
  /\ song \in {[InitialSong EXCEPT !.notes = l] : l \in LookupLists}
  /\ duration = TotalExtent(song.notes)
  /\ isPlaying = FALSE
  /\ currentTime = 0
  /\ currentlyPlayingNote = Null
  /\ lastPlayedNoteRef = Null
  /\ editorMode = TRUE
  /\ editingSong = song
  /\ synth = TRUE
  /\ isAudioInitialized = FALSE
  /\ animationId = FALSE
  /\ lastTime = "null"
  /\ reader = NoReader
  /\ playbackDirty = FALSE
  /\ noteDirty = FALSE
  /\ audio = <<>>
  /\ edits = 0
  /\ lastOp = "openEditor"

NextEditor ==
  \/ MayOperate /\ addNote
  \/ MayOperate /\ \E index \in AnyIndex(editingSong.notes), pv \in EditValues :
                     updateNote(index, pv[1], pv[2])
  \/ MayOperate /\ \E index \in AnyIndex(editingSong.notes) : deleteNote(index)

SpecEditor == InitEditor /\ [][NextEditor]_vars

(***************************************************************************)
(* Properties.                                                             *)
(***************************************************************************)

\* C1: in every reachable state 0 <= currentTime <= totalDuration.
C1_TimeWithinDuration == 0 <= currentTime /\ currentTime <= duration

\* C2: after reset, from any state, currentTime is 0 and playback is
\* stopped, and once the effects have run no note is sounding.
C2_ResetYields ==
  lastOp = "reset" =>
    /\ currentTime = 0
    /\ ~isPlaying
    /\ Idle => currentlyPlayingNote = Null

\* reset has run while a note was sounding during playback
C2_Witness ==
  /\ lastOp = "reset"
  /\ audio = <<Release>>
  /\ playbackDirty
  /\ currentTime = 0

\* C3: after reset, from any state, the last-dispatched-note cache
\* (lastPlayedNoteRef) is none.
C3_ResetClearsCache == lastOp = "reset" => lastPlayedNoteRef = Null

\* C4: once play is started and only frames follow, playback stops by
\* itself with currentTime = totalDuration, and currentTime never exceeds
\* totalDuration while it plays.
C4_AutoStop ==
  /\ isPlaying ~> (~isPlaying /\ currentTime = duration)
  /\ [](isPlaying => currentTime <= duration)

\* The eventual stop alone.
AutoStopEventually == isPlaying ~> (~isPlaying /\ currentTime = duration)

\* C5: after pause the pending frame is cancelled and the sounding note is
\* released once the effects have run, and a frame callback runs only while
\* playing, so that none changes currentTime until play is invoked again.
C5_PauseHalts ==
  /\ []((lastOp = "pause" /\ Idle) =>
          (~isPlaying /\ ~animationId /\ currentlyPlayingNote = Null))
  /\ [][Frame => isPlaying]_vars

\* pause has run while a note was sounding, and the effect released it
C5_Witness ==
  /\ lastOp = "pause"
  /\ audio = <<Release>>
  /\ currentlyPlayingNote = Null
  /\ ~animationId
  /\ currentTime > 0

\* C6: a click at fraction f = x / BarWidth in [0, 1] sets currentTime to
\* exactly f * totalDuration, playing or paused, and leaves isPlaying,
\* totalDuration and the song as they are.
C6_SeekSetsTime ==
  [][\A x \in 0..BarWidth :
       handleProgressBarClick(x) =>
         /\ currentTime' * BarWidth = x * duration
         /\ isPlaying' = isPlaying
         /\ duration' = duration
         /\ song' = song]_vars

\* a seek to the middle of the bar has run during playback
C6_Witness ==
  /\ lastOp = "seek"
  /\ isPlaying
  /\ currentTime > 0
  /\ currentTime * 2 = duration

\* C7: a click at a fraction below 0 yields currentTime = 0 and one above
\* 1 yields currentTime = totalDuration.
C7_SeekClamped ==
  [][\A x \in ClickXs :
       handleProgressBarClick(x) =>
         /\ x < 0 => currentTime' = 0
         /\ x > BarWidth => currentTime' = duration]_vars

\* C8: getCurrentNoteIndex is the first index in list order whose half-open
\* interval holds the time, -1 when there is none, and getCurrentNote is
\* the name of the note at that index, none exactly when the index is -1.
ActiveAt(i, time, notes) ==
  /\ notes[i + 1].time <= time
  /\ time < notes[i + 1].time + notes[i + 1].duration

C8_FirstMatch ==
  LET notes == song.notes
      index == getCurrentNoteIndex(currentTime, notes)
      name == getCurrentNote(currentTime, notes)
      rows == 0..(Len(notes) - 1)
  IN /\ (index = -1) <=> (\A i \in rows : ~ActiveAt(i, currentTime, notes))
     /\ index # -1 =>
          /\ index \in rows
          /\ ActiveAt(index, currentTime, notes)
          /\ \A j \in rows : j < index => ~ActiveAt(j, currentTime, notes)
          /\ name = notes[index + 1].note
     /\ (name = Null) <=> (index = -1)

\* two overlapping notes of different names hold the time, during playback
C8_Witness ==
  /\ Len(song.notes) = 2
  /\ ActiveAt(0, currentTime, song.notes)
  /\ ActiveAt(1, currentTime, song.notes)
  /\ song.notes[1].note # song.notes[2].note
  /\ currentTime > 0
  /\ isPlaying

\* C9: saveSong makes the live song the edited song, totalDuration the
\* maximum of time + duration over its notes, and resets playback, in one
\* step: in no state do the song and totalDuration disagree.
IsMaxExtent(d, notes) ==
  IF notes = <<>> THEN d = 0
  ELSE /\ \E i \in 1..Len(notes) : d = notes[i].time + notes[i].duration
       /\ \A i \in 1..Len(notes) : d >= notes[i].time + notes[i].duration

C9_CommitAtomic ==
  /\ IsMaxExtent(duration, song.notes)
  /\ lastOp = "saveSong" =>
       /\ song = editingSong
       /\ ~editorMode
       /\ currentTime = 0
       /\ ~isPlaying
       /\ Idle => (currentlyPlayingNote = Null /\ ~animationId)

\* an edited song whose last note is not its longest-reaching one has been
\* saved while a note was sounding
C9_Witness ==
  /\ lastOp = "saveSong"
  /\ song # InitialSong
  /\ song.notes # <<>>
  /\ ExtentOfLast(song.notes) < duration
  /\ audio = <<Release>>

\* C10: updateNote with an index outside the rows of the list leaves the
\* list as it is.
C10_OutOfRangeNoOp ==
  [][\A index \in AnyIndex(editingSong.notes), pv \in EditValues :
       (/\ updateNote(index, pv[1], pv[2])
        /\ (index < 0 \/ index >= Len(editingSong.notes)))
         => editingSong'.notes = editingSong.notes]_vars

\* C11: addNote appends, at the end of the list, one note with name C1,
\* duration 1 and time equal to the maximum of time + duration over the
\* existing notes (0 for the empty list); the existing notes are unchanged
\* and the new note's interval overlaps none of theirs.
Overlap(a, b) ==
  /\ a.time < b.time + b.duration
  /\ b.time < a.time + a.duration

C11_AddNoteAppends ==
  [][addNote =>
       LET old == editingSong.notes
           new == editingSong'.notes
           added == new[Len(new)]
       IN /\ Len(new) = Len(old) + 1
          /\ SubSeq(new, 1, Len(old)) = old
          /\ added.note = "C1"
          /\ added.duration = Sec(1)
          /\ IsMaxExtent(added.time, old)
          /\ \A i \in 1..Len(old) : ~Overlap(added, old[i])]_vars

\* a note has been added to a list whose last row is not the one reaching
\* furthest
C11_Witness ==
  /\ lastOp = "addNote"
  /\ Len(editingSong.notes) = 3
  /\ editingSong.notes[3] = Note("C1", Sec(1), Sec(2))
  /\ editingSong.notes[2].time + editingSong.notes[2].duration < Sec(2)

\* C12: deleteNote with the index of a row removes exactly that row: the
\* list is shorter by one, the rows before it keep their indices, the rows
\* after it move down by one, and every remaining row keeps its note, time
\* and duration.
C12_DeleteRemovesOne ==
  [][\A index \in AnyIndex(editingSong.notes) :
       (/\ deleteNote(index)
        /\ 0 <= index /\ index < Len(editingSong.notes))
         => LET old == editingSong.notes
                new == editingSong'.notes
            IN /\ Len(new) = Len(old) - 1
               /\ \A i \in 0..(index - 1) : new[i + 1] = old[i + 1]
               /\ \A i \in index..(Len(new) - 1) : new[i + 1] = old[i + 2]]_vars

\* the first of two different rows has been deleted: the second row is now
\* the first
C12_Witness ==
  /\ lastOp = "deleteNote"
  /\ edits = 1
  /\ Len(song.notes) = 2
  /\ song.notes[1] # song.notes[2]
  /\ editingSong.notes = <<song.notes[2]>>

\* C13: for a note name missing from the finger table the lookup does not
\* fail and gives the all-open vector of the table's length 7: each of the
\* 7 key labels is drawn not pressed, and the finger position panel draws
\* its 7 circles, none pressed.
AllOpen == [i \in 1..7 |-> FALSE]

MissingName(name) == name # Null /\ name \notin DOMAIN fingerPositions

C13_MissIsAllOpen ==
  LET name == getCurrentNote(currentTime, song.notes)
  IN MissingName(name) =>
       /\ \A index \in KeyLabels : ~keyLabelPressed(name, index)
       /\ fingerRows(name) = AllOpen

\* The part about the key labels alone.
KeyLabelsOpenOnMiss ==
  LET name == getCurrentNote(currentTime, song.notes)
  IN MissingName(name) => \A index \in KeyLabels : ~keyLabelPressed(name, index)

\* an imported song plays a note whose name the table does not hold
MissingNamePlays ==
  /\ isPlaying
  /\ MissingName(getCurrentNote(currentTime, song.notes))
  /\ currentlyPlayingNote = getCurrentNote(currentTime, song.notes)

\* C14: for a note name missing from the table of names the pitch handed
\* to the attack is the fixed default 440 (a pitch is handed over as text:
\* a note name, or the digits of a frequency).
DefaultPitch == "440"

IsAttack(call) == call.op = "triggerAttackRelease"

C14_MissGets440 ==
  \A k \in 1..Len(audio) :
    (IsAttack(audio[k]) /\ MissingName(currentlyPlayingNote))
      => audio[k].note = DefaultPitch

\* C15: while playing with audio initialized, when the note effect runs
\* in a state where no note is sounding (also one reached through pause or
\* reset) and the active note is N, an attack for N is issued and the
\* sounding note becomes N.
AttackFor(name, calls) ==
  \E k \in 1..Len(calls) :
    IsAttack(calls[k]) /\ calls[k].note = transposedNote(name)

C15_SilentToSounding ==
  [][LET N == getCurrentNote(currentTime, song.notes)
     IN (/\ RunEffects
         /\ noteDirty /\ isPlaying /\ isAudioInitialized
         /\ currentlyPlayingNote = Null
         /\ N # Null)
          => /\ AttackFor(N, audio')
             /\ currentlyPlayingNote' = N]_vars

\* C16: the synth is called only at transitions of the sounding note.  An
\* attack is issued only by the note effect, for the active note, when that
\* note differs from the last dispatched one (lastPlayedNoteRef); a release
\* is issued only when a note is sounding and the active note differs from
\* it or is none, or playback is stopped by pause or reset.
IsRelease(call) == call.op = "triggerRelease"

AttackAtChange ==
  LET N == getCurrentNote(currentTime, song.notes)
  IN (\E k \in 1..Len(audio') : IsAttack(audio'[k]))
       => /\ RunEffects
          /\ N # Null
          /\ N # lastPlayedNoteRef
          /\ AttackFor(N, audio')

ReleaseAtTransition ==
  LET N == getCurrentNote(currentTime', song'.notes)
  IN (\E k \in 1..Len(audio') : IsRelease(audio'[k]))
       => /\ currentlyPlayingNote # Null
          /\ N # currentlyPlayingNote \/ ~isPlaying'

C16_CallsOnlyAtTransitions ==
  [][AttackAtChange /\ ReleaseAtTransition]_vars

\* The attack half alone.
AttackOnlyOnChange == [][AttackAtChange]_vars

\* C17: every attack is issued with the duration of the note active at the
\* current time, the row getCurrentNoteIndex finds, also when several rows
\* of the song have the same name and different durations.
C17_AttackHasActiveDuration ==
  [][LET index == getCurrentNoteIndex(currentTime, song.notes)
     IN \A k \in 1..Len(audio') :
          IsAttack(audio'[k]) =>
            /\ index # -1
            /\ audio'[k].duration = song.notes[index + 1].duration]_vars

====
